---- MODULE Spec2Model ----
(***************************************************************************)
(* A model of uataq's file-selection and parsing pipeline:                 *)
(*   TimeRange (parse_iso, the start/stop setters, __contains__),          *)
(*   DataFile.__init__, filter_datafiles, GroupSpace.get_datafiles,        *)
(*   _parse_datafile and parse_datafiles.                                  *)
(*                                                                         *)
(* Strings are sequences of one-character strings.  A datetime is the     *)
(* tuple <<year, month, day, hour>>, None is the empty tuple << >>, and a *)
(* pandas Period of frequency "Y","M","D","H" is the prefix of length     *)
(* 1..4 of such a tuple.                                                   *)
(***************************************************************************)
EXTENDS Integers, Sequences, FiniteSets, TLC

VARIABLES iso, tr, member, fcall, env, pcall, tasks, datasets, pool, outcome

parseVars == <<env, pcall, tasks, datasets, pool, outcome>>

vars == <<iso, tr, member, fcall, parseVars>>

None == << >>

(***************************************************************************)
(* Characters and Python's int()                                           *)
(***************************************************************************)
DigitChars == <<"0", "1", "2", "3", "4", "5", "6", "7", "8", "9">>

IsDigit(c) == \E i \in 1..Len(DigitChars) : DigitChars[i] = c

DigitVal(c) == (CHOOSE i \in 1..Len(DigitChars) : DigitChars[i] = c) - 1

RECURSIVE IntOf(_)
IntOf(ds) ==
    IF ds = << >> THEN 0
    ELSE IntOf(SubSeq(ds, 1, Len(ds) - 1)) * 10 + DigitVal(ds[Len(ds)])

\* s[i] when i is inside s, and a character no pattern matches otherwise
CharAt(s, i) == IF i >= 1 /\ i <= Len(s) THEN s[i] ELSE "<end>"

(***************************************************************************)
(* The regular expression of parse_iso, matched as re.match does: at the   *)
(* start of the string, greedily, with nothing required after the year, so *)
(* that the first (greedy) choice of every optional item is the match.     *)
(* Each step returns the position after the item.                          *)
(***************************************************************************)
\* -?  and  :?  and  [T\s]?
SkipOne(s, i, cs) == IF CharAt(s, i) \in cs THEN i + 1 ELSE i

\* (\d{2})?  : the position after the two digits, or i when they are not there
AfterTwoDigits(s, i) ==
    IF IsDigit(CharAt(s, i)) /\ IsDigit(CharAt(s, i + 1)) THEN i + 2 ELSE i

\* (\d{1,2})?
AfterHourDigits(s, i) ==
    IF IsDigit(CharAt(s, i)) /\ IsDigit(CharAt(s, i + 1)) THEN i + 2
    ELSE IF IsDigit(CharAt(s, i)) THEN i + 1
    ELSE i

\* ^(?P<year>\d{4})
YearMatches(s) == \A i \in 1..4 : IsDigit(CharAt(s, i))

\* The groups of the match: [matched, year, month, day, hour, end], each group
\* the digits it captured (<< >> for a group that took no part), end the
\* position after the whole match.
iso8601(s) ==
    IF ~YearMatches(s)
    THEN [matched |-> FALSE, year |-> << >>, month |-> << >>, day |-> << >>,
          hour |-> << >>, end |-> 1]
    ELSE LET p1 == SkipOne(s, 5, {"-"})
             p2 == AfterTwoDigits(s, p1)
             p3 == SkipOne(s, p2, {"-"})
             p4 == AfterTwoDigits(s, p3)
             p5 == SkipOne(s, p4, {"T", " "})
             p6 == AfterHourDigits(s, p5)
             p7 == SkipOne(s, p6, {":"})
             p8 == AfterTwoDigits(s, p7)
         IN  [matched |-> TRUE,
              year    |-> SubSeq(s, 1, 4),
              month   |-> SubSeq(s, p1, p2 - 1),
              day     |-> SubSeq(s, p3, p4 - 1),
              hour    |-> SubSeq(s, p5, p6 - 1),
              end     |-> p8]

(***************************************************************************)
(* datetime: the constructor's range checks and timedelta addition, which  *)
(* CPython does on proleptic Gregorian ordinals.                           *)
(***************************************************************************)
IsLeap(y) == y % 4 = 0 /\ (y % 100 # 0 \/ y % 400 = 0)

DaysInMonthTable == <<31, 28, 31, 30, 31, 30, 31, 31, 30, 31, 30, 31>>

DaysInMonth(y, m) == IF m = 2 /\ IsLeap(y) THEN 29 ELSE DaysInMonthTable[m]

\* dt.datetime(year, month, day, hour) raises ValueError outside these ranges
ValidDatetime(y, m, d, h) ==
    /\ y >= 1 /\ y <= 9999
    /\ m >= 1 /\ m <= 12
    /\ d >= 1 /\ d <= DaysInMonth(y, m)
    /\ h >= 0 /\ h <= 23

DaysBeforeYear(y) ==
    (y - 1) * 365 + ((y - 1) \div 4) - ((y - 1) \div 100) + ((y - 1) \div 400)

RECURSIVE DaysBeforeMonth(_, _)
DaysBeforeMonth(y, m) ==
    IF m = 1 THEN 0 ELSE DaysBeforeMonth(y, m - 1) + DaysInMonth(y, m - 1)

ToOrdinal(y, m, d) == DaysBeforeYear(y) + DaysBeforeMonth(y, m) + d

\* the month holding day-of-year n (1-based) of year y, counting up from m
RECURSIVE MonthOfYearDay(_, _, _)
MonthOfYearDay(y, n, m) ==
    IF n <= DaysBeforeMonth(y, m) + DaysInMonth(y, m) THEN m
    ELSE MonthOfYearDay(y, n, m + 1)

\* date.fromordinal: 400-, 100-, 4- and 1-year cycles, as _ord2ymd
FromOrdinal(ord) ==
    LET n0   == ord - 1
        n400 == n0 \div 146097
        r400 == n0 % 146097
        n100 == r400 \div 36524
        r100 == r400 % 36524
        n4   == r100 \div 1461
        r4   == r100 % 1461
        n1   == r4 \div 365
        r1   == r4 % 365
        year == n400 * 400 + 1 + n100 * 100 + n4 * 4 + n1
    IN  IF n1 = 4 \/ n100 = 4
        THEN <<year - 1, 12, 31>>
        ELSE LET mo == MonthOfYearDay(year, r1 + 1, 1)
             IN  <<year, mo, r1 + 1 - DaysBeforeMonth(year, mo)>>

Ok(v)    == [kind |-> "ok", value |-> v]
Raise(e) == [kind |-> e, value |-> None]

\* datetime + timedelta(days, hours): the hours carry into the ordinal of the
\* day; OverflowError past year 9999
AddTimedelta(t, days, hours) ==
    LET hh   == t[4] + hours
        date == FromOrdinal(ToOrdinal(t[1], t[2], t[3]) + days + (hh \div 24))
    IN  IF date[1] > 9999 THEN Raise("OverflowError")
        ELSE Ok(<<date[1], date[2], date[3], hh % 24>>)

\* dt.datetime(y, m, d, h)
Datetime(y, m, d, h) ==
    IF ValidDatetime(y, m, d, h) THEN Ok(<<y, m, d, h>>) ELSE Raise("ValueError")

(***************************************************************************)
(* TimeRange.parse_iso                                                     *)
(***************************************************************************)
\* int(components[g] or default)
IntOr(group, default) == IF group # << >> THEN IntOf(group) ELSE default

\* the inclusive branch with the year of a December string not advanced
InclusiveStop_NoYearWrap(c, year, month, start) ==
    IF c.year # << >> /\ c.month = << >>
    THEN Datetime(year + 1, 1, 1, 0)
    ELSE IF c.month # << >> /\ c.day = << >>
    THEN Datetime(year, IF month < 12 THEN month + 1 ELSE 1, 1, 0)
    ELSE IF c.day # << >> /\ c.hour = << >>
    THEN AddTimedelta(start, 1, 0)
    ELSE IF c.hour # << >>
    THEN AddTimedelta(start, 0, 1)
    ELSE Raise("ValueError")

\* the inclusive branch: the stop of the unit the string names
InclusiveStop(c, year, month, start) ==
    IF c.year # << >> /\ c.month = << >>
    THEN Datetime(year + 1, 1, 1, 0)
    ELSE IF c.month # << >> /\ c.day = << >>
    THEN LET mm   == IF month < 12 THEN month + 1 ELSE 1
             yyyy == IF month = 12 THEN year + 1 ELSE year
         IN  Datetime(yyyy, mm, 1, 0)
    ELSE IF c.day # << >> /\ c.hour = << >>
    THEN AddTimedelta(start, 1, 0)
    ELSE IF c.hour # << >>
    THEN AddTimedelta(start, 0, 1)
    ELSE Raise("ValueError")

\* the return statement, given start = dt.datetime(year, month, day, hour)
StartOrStop(c, year, month, start, inclusive) ==
    IF start.kind # "ok" THEN start
    ELSE IF inclusive THEN InclusiveStop(c, year, month, start.value)
    ELSE start

\* the body of parse_iso after the match: c is match.groupdict()
FromComponents(c, inclusive) ==
    IF ~c.matched THEN Raise("ValueError")
    ELSE StartOrStop(c, IntOf(c.year), IntOr(c.month, 1),
                     Datetime(IntOf(c.year), IntOr(c.month, 1),
                              IntOr(c.day, 1), IntOr(c.hour, 0)),
                     inclusive)

parse_iso(string, inclusive) == FromComponents(iso8601(string), inclusive)

(***************************************************************************)
(* Inputs of parse_iso: strings written from their fields in every style   *)
(* the pattern allows, and strings that are not of an accepted form.       *)
(***************************************************************************)
Years  == {1900, 2019, 2020}
Months == 1..12
Days   == {1, 15, 28, 29, 30, 31}
Hours  == {0, 10, 23}

\* the fields of a partial ISO8601 string: <<y>>, <<y,m>>, <<y,m,d>>, <<y,m,d,h>>
FieldSets ==
    {<<y>> : y \in Years}
    \cup {<<y, m>> : y \in Years, m \in Months}
    \cup {<<y, m, d>> : y \in Years, m \in Months, d \in Days}
    \cup {<<y, m, d, h>> : y \in Years, m \in Months, d \in Days, h \in Hours}

\* dash: "-" between the date fields; tsep: what precedes the hour;
\* minutes: what follows it
Styles ==
    [dash : BOOLEAN, tsep : {<< >>, <<"T">>, <<" ">>},
     minutes : {<< >>, <<":", "3", "0">>, <<"3", "0">>}]

TwoChars(n) == <<DigitChars[(n \div 10) + 1], DigitChars[(n % 10) + 1]>>

FourChars(n) == TwoChars(n \div 100) \o TwoChars(n % 100)

FormatIso(f, st) ==
    LET sep == IF st.dash THEN <<"-">> ELSE << >>
    IN  FourChars(f[1])
        \o (IF Len(f) >= 2 THEN sep \o TwoChars(f[2]) ELSE << >>)
        \o (IF Len(f) >= 3 THEN sep \o TwoChars(f[3]) ELSE << >>)
        \o (IF Len(f) >= 4 THEN st.tsep \o TwoChars(f[4]) \o st.minutes ELSE << >>)

OtherStrings ==
    { << >>,
      <<"2", "0">>,
      <<"a", "b", "c", "d">>,
      <<"2", "0", "2", "0", "a", "b", "c">>,
      <<"2", "0", "2", "0", "-", "6">>,
      <<"2", "0", "2", "0", "/", "0", "6">>,
      <<"2", "0", "2", "0", "-", "0", "6", "-", "1", "5", "T", "9">>,
      <<"2", "0", "2", "0", "-", "0", "6", "-", "1", "5", "Z">>,
      <<"x", "2", "0", "2", "0">>,
      <<"2", "0", "2", "0", "-", "0", "6", "T", "1", "0">> }

IsoInputs ==
    {[string |-> FormatIso(f, st), fields |-> f] : f \in FieldSets, st \in Styles}
    \cup {[string |-> s, fields |-> None] : s \in OtherStrings}

(***************************************************************************)
(* State of a parse_iso call: its arguments, the fields its string was     *)
(* written from (None for a free-form string), and, once called, its       *)
(* result.                                                                 *)
(***************************************************************************)
IsoIdle ==
    iso = [called |-> FALSE, string |-> << >>, inclusive |-> FALSE,
           fields |-> None, result |-> Raise("none")]

IsoInit ==
    \E in \in IsoInputs, inclusive \in BOOLEAN :
        iso = [called |-> FALSE, string |-> in.string, inclusive |-> inclusive,
               fields |-> in.fields, result |-> Raise("none")]

\* TimeRange.parse_iso(string, inclusive)
ParseIso ==
    /\ ~iso.called
    /\ iso' = [iso EXCEPT !.called = TRUE,
                          !.result = parse_iso(iso.string, iso.inclusive)]
    /\ UNCHANGED <<tr, member, fcall, parseVars>>

(***************************************************************************)
(* TimeRange: the constructor, the start and stop setters, __contains__.   *)
(* A bound argument is a tagged value [type, s, t]: type "None", "str"     *)
(* (s the string), "datetime" (t the datetime) or "int" (no accepted       *)
(* type).  A time_range argument is [type, s, pair]: type "None", "str",   *)
(* "tuple" (pair the two bound arguments), "TimeRange" (pair the bounds of *)
(* the range copied) or "int".                                             *)
(***************************************************************************)
NoneArg   == [type |-> "None", s |-> << >>, t |-> None]
StrArg(x) == [type |-> "str", s |-> x, t |-> None]
DtArg(x)  == [type |-> "datetime", s |-> << >>, t |-> x]
IntArg    == [type |-> "int", s |-> << >>, t |-> None]

NoRange       == [type |-> "None", s |-> << >>, pair |-> <<NoneArg, NoneArg>>]
StrRange(x)   == [type |-> "str", s |-> x, pair |-> <<NoneArg, NoneArg>>]
TupleRange(a, b) == [type |-> "tuple", s |-> << >>, pair |-> <<a, b>>]
IntRange      == [type |-> "int", s |-> << >>, pair |-> <<NoneArg, NoneArg>>]

\* a datetime or None as an argument
AsArg(x) == IF x = None THEN NoneArg ELSE DtArg(x)

\* Python truth of an argument: None and "" are false
Truthy(a) == a.type # "None" /\ (a.type = "str" => a.s # << >>)

\* lexicographic order of datetimes
Before(a, b) ==
    \E i \in 1..4 : a[i] < b[i] /\ \A j \in 1..(i - 1) : a[j] = b[j]

NotAfter(a, b) == a = b \/ Before(a, b)

\* the start setter
start_setter(start) ==
    IF start.type \in {"None", "datetime"} THEN Ok(start.t)
    ELSE IF start.type = "str" THEN parse_iso(start.s, FALSE)
    ELSE Raise("ValueError")

\* the stop setter
stop_setter(stop) ==
    IF stop.type \in {"None", "datetime"} THEN Ok(stop.t)
    ELSE IF stop.type = "str" THEN parse_iso(stop.s, TRUE)
    ELSE Raise("ValueError")

Failed(e) == [kind |-> e, start |-> None, stop |-> None]

\* the object with both bounds set, or the exception the first failing
\* conversion raised
Bounds(a, b) ==
    IF a.kind # "ok" THEN Failed(a.kind)
    ELSE IF b.kind # "ok" THEN Failed(b.kind)
    ELSE [kind |-> "ok", start |-> a.value, stop |-> b.value]

\* self.start = start; self.stop = stop
SetBounds(start, stop) == Bounds(start_setter(start), stop_setter(stop))

\* TimeRange(time_range, start, stop): [kind, start, stop], kind "ok" or the
\* exception the constructor raises.  A string time_range is parsed to two
\* datetimes, which the setters then store as they are.
TimeRange(time_range, start, stop) ==
    IF Truthy(time_range) /\ (Truthy(start) \/ Truthy(stop))
    THEN Failed("AssertionError")
    ELSE IF Truthy(time_range) /\ time_range.type = "str"
    THEN Bounds(parse_iso(time_range.s, FALSE), parse_iso(time_range.s, TRUE))
    ELSE IF Truthy(time_range) /\ time_range.type \notin {"TimeRange", "tuple"}
    THEN Failed("ValueError")
    ELSE SetBounds(
            IF time_range.type \in {"TimeRange", "tuple"} THEN time_range.pair[1]
            ELSE IF ~Truthy(start) /\ ~Truthy(stop) THEN NoneArg
            ELSE start,
            IF time_range.type \in {"TimeRange", "tuple"} THEN time_range.pair[2]
            ELSE IF ~Truthy(start) /\ ~Truthy(stop) THEN NoneArg
            ELSE stop)

\* the half-open reading of a bounded range, which __contains__ does not take
contains_halfopen(start, stop, item) ==
    IF start = None /\ stop = None THEN TRUE
    ELSE IF start = None THEN Before(item, stop)
    ELSE IF stop = None THEN NotAfter(start, item)
    ELSE NotAfter(start, item) /\ Before(item, stop)

\* TimeRange.__contains__ (a datetime is always true, None is false)
contains(start, stop, item) ==
    IF ~(start # None \/ stop # None) THEN TRUE
    ELSE IF ~(start # None) THEN NotAfter(item, stop)
    ELSE IF ~(stop # None) THEN NotAfter(start, item)
    ELSE NotAfter(start, item) /\ NotAfter(item, stop)

S2020    == <<"2", "0", "2", "0">>
S2020_06 == <<"2", "0", "2", "0", "-", "0", "6">>
S2020_06_15 == <<"2", "0", "2", "0", "-", "0", "6", "-", "1", "5">>
SBad     == <<"j", "u", "n", "e">>

Instants ==
    { <<2019, 12, 31, 0>>, <<2020, 1, 1, 0>>, <<2020, 6, 15, 12>>,
      <<2020, 7, 1, 0>>, <<2021, 1, 1, 0>>, <<2021, 1, 1, 1>> }

BoundArgs ==
    {NoneArg, StrArg(S2020), StrArg(S2020_06), StrArg(SBad), StrArg(<< >>),
     DtArg(<<2020, 1, 1, 0>>), DtArg(<<2021, 1, 1, 0>>), IntArg}

RangeArgs ==
    {NoRange, StrRange(S2020), StrRange(S2020_06_15), StrRange(SBad),
     TupleRange(StrArg(S2020_06), StrArg(S2020)),
     TupleRange(NoneArg, DtArg(<<2020, 7, 1, 0>>)),
     TupleRange(DtArg(<<2021, 1, 1, 0>>), DtArg(<<2020, 1, 1, 0>>)),
     [type |-> "TimeRange", s |-> << >>,
      pair |-> <<DtArg(<<2020, 1, 1, 0>>), NoneArg>>],
     IntRange}

(***************************************************************************)
(* State of a TimeRange: tr is the object once constructed (or the         *)
(* exception its construction raised) with the arguments it was given;     *)
(* member is the last membership test made on it.                          *)
(***************************************************************************)
RangeInit ==
    /\ tr = [kind |-> "none", start |-> None, stop |-> None,
             args |-> [time_range |-> NoRange, start |-> NoneArg, stop |-> NoneArg]]
    /\ member = [called |-> FALSE, item |-> None, result |-> FALSE]

\* tr = TimeRange(time_range, start=..., stop=...)
NewTimeRange ==
    /\ tr.kind = "none"
    /\ \E time_range \in RangeArgs, start \in BoundArgs, stop \in BoundArgs :
          LET r == TimeRange(time_range, start, stop)
          IN  tr' = [kind |-> r.kind, start |-> r.start, stop |-> r.stop,
                     args |-> [time_range |-> time_range, start |-> start,
                                stop |-> stop]]
    /\ UNCHANGED <<iso, member, fcall, parseVars>>

\* item in tr
Contains ==
    /\ tr.kind = "ok"
    /\ \E item \in Instants :
          member' = [called |-> TRUE, item |-> item,
                     result |-> contains(tr.start, tr.stop, item)]
    /\ UNCHANGED <<iso, tr, fcall, parseVars>>

(***************************************************************************)
(* pandas: Period, a PeriodIndex sorted, and .loc[start:stop] on it.       *)
(* A Period is the prefix <<y>>, <<y,m>>, <<y,m,d>> or <<y,m,d,h>> of a    *)
(* datetime; its length is its frequency.                                  *)
(***************************************************************************)
\* pd.Period(datetime, freq): the period of frequency n holding instant t
PeriodOf(t, n) == SubSeq(t, 1, n)

\* Period.start_time
start_time(period) == period \o SubSeq(<<1, 1, 1, 0>>, Len(period) + 1, 4)

\* order of two periods of one frequency
PeriodBefore(a, b) ==
    \E i \in 1..Len(a) : a[i] < b[i] /\ \A j \in 1..(i - 1) : a[j] = b[j]

\* x put into the sorted list after every entry not later than it
RECURSIVE InsertByPeriod(_, _)
InsertByPeriod(x, sorted) ==
    IF sorted = << >> THEN <<x>>
    ELSE IF PeriodBefore(x.period, sorted[Len(sorted)].period)
    THEN InsertByPeriod(x, SubSeq(sorted, 1, Len(sorted) - 1))
         \o <<sorted[Len(sorted)]>>
    ELSE sorted \o <<x>>

\* df.set_index('period').sort_index(): ascending; rows of equal period keep
\* their order (the sort of a list this short is an insertion sort)
RECURSIVE SortByPeriod(_)
SortByPeriod(files) ==
    IF files = << >> THEN << >>
    ELSE InsertByPeriod(files[Len(files)],
                        SortByPeriod(SubSeq(files, 1, Len(files) - 1)))

\* row f of a PeriodIndex of frequency n lies in .loc[start:stop]: a bound
\* is cast to the Period holding it and both ends are included
InLocSlice(f, start, stop, n) ==
    /\ (start # None => ~PeriodBefore(f.period, PeriodOf(start, n)))
    /\ (stop # None => ~PeriodBefore(PeriodOf(stop, n), f.period))

\* df.loc[start:stop, 'file'].tolist()
LocSlice(sorted, start, stop) ==
    SelectSeq(sorted,
              LAMBDA f : InLocSlice(f, start, stop, Len(sorted[1].period)))

(***************************************************************************)
(* filter_datafiles.  A DataFile is [path, period].                        *)
(***************************************************************************)
\* pattern in path
IsSubstring(pattern, path) ==
    \E i \in 0..(Len(path) - Len(pattern)) :
        SubSeq(path, i + 1, i + Len(pattern)) = pattern

\* if pattern: keep the files with pattern in file.path
FilterByPattern(files, pattern) ==
    IF pattern # << >>
    THEN SelectSeq(files, LAMBDA f : IsSubstring(pattern, f.path))
    ELSE files

\* drop the last file if it starts at the end of the time range
DropBoundaryFile(files, stop) ==
    IF Len(files) > 0 /\ start_time(files[Len(files)].period) = stop
    THEN SubSeq(files, 1, Len(files) - 1)
    ELSE files

\* the final selection returned although it is empty
ReturnOrRaise_NoCheck(files) == [kind |-> "ok", files |-> files]

\* raise ReaderError if nothing is left, else return the files
ReturnOrRaise(files) ==
    IF Len(files) = 0 THEN [kind |-> "ReaderError", files |-> << >>]
    ELSE [kind |-> "ok", files |-> files]

\* the selection before the final check
FinalSelection(files, start, stop, pattern) ==
    DropBoundaryFile(
        FilterByPattern(LocSlice(SortByPeriod(files), start, stop), pattern),
        stop)

filter_datafiles(files, start, stop, pattern) ==
    ReturnOrRaise(FinalSelection(files, start, stop, pattern))

(***************************************************************************)
(* DataFile.__init__ for a variant of monthly files named YYYY_MM.dat, and *)
(* GroupSpace.get_datafiles.                                               *)
(***************************************************************************)
Variant == [ext |-> <<"d", "a", "t">>, date_slicer |-> <<0, 7>>, file_freq |-> "M"]

\* os.path.basename
RECURSIVE basename(_)
basename(path) ==
    IF path = << >> \/ path[Len(path)] = "/" THEN << >>
    ELSE basename(SubSeq(path, 1, Len(path) - 1)) \o <<path[Len(path)]>>

\* fname[slice(a, b)] for 0 <= a <= b
Slice(str, sl) ==
    SubSeq(str, sl[1] + 1, IF sl[2] < Len(str) THEN sl[2] ELSE Len(str))

\* str.replace('_', '-')
Replace(str) == [i \in 1..Len(str) |-> IF str[i] = "_" THEN "-" ELSE str[i]]

\* path.endswith(ext)
endswith(path, ext) ==
    Len(path) >= Len(ext) /\ SubSeq(path, Len(path) - Len(ext) + 1, Len(path)) = ext

\* pd.Period(date_str, freq='M'): the month YYYY-MM, or ValueError (pandas
\* raises DateParseError, a ValueError) for a string that names no month
Period(date_str, freq) ==
    IF /\ freq = "M"
       /\ Len(date_str) = 7
       /\ \A i \in {1, 2, 3, 4, 6, 7} : IsDigit(date_str[i])
       /\ date_str[5] = "-"
       /\ IntOf(SubSeq(date_str, 6, 7)) \in 1..12
       /\ IntOf(SubSeq(date_str, 1, 4)) >= 1
    THEN Ok(<<IntOf(SubSeq(date_str, 1, 4)), IntOf(SubSeq(date_str, 6, 7))>>)
    ELSE Raise("ValueError")

\* the period wrapped as DataFile.__init__ leaves it
DataFileOf(path, period) ==
    [kind |-> period.kind, file |-> [path |-> path, period |-> period.value]]

\* DataFile.__init__(path): [kind, file], kind "ok" or the exception raised
DataFile(path) ==
    DataFileOf(path,
               Period(Replace(Slice(basename(path), Variant.date_slicer)),
                      Variant.file_freq))

\* the loop of get_datafiles over file_paths, from datafiles built so far:
\* [kind, files], kind "ok" or the exception that left the loop
RECURSIVE InitializeDataFiles(_)
InitializeDataFiles(file_paths) ==
    IF file_paths = << >> THEN [kind |-> "ok", files |-> << >>]
    ELSE LET before == InitializeDataFiles(SubSeq(file_paths, 1, Len(file_paths) - 1))
             path   == file_paths[Len(file_paths)]
         IN  IF before.kind # "ok" \/ ~endswith(path, Variant.ext) THEN before
             ELSE LET made == DataFile(path)
                  IN  IF made.kind = "ok"
                      THEN [kind |-> "ok", files |-> Append(before.files, made.file)]
                      ELSE IF made.kind = "DataFileInitializationError"
                      THEN before
                      ELSE [kind |-> made.kind, files |-> << >>]

\* return filter_datafiles(datafiles, time_range, pattern), unless the loop raised
FilterInitialized(made, start, stop, pattern) ==
    IF made.kind # "ok" THEN made
    ELSE filter_datafiles(made.files, start, stop, pattern)

\* GroupSpace.get_datafiles, from the paths get_files returned
get_datafiles(file_paths, start, stop, pattern) ==
    FilterInitialized(InitializeDataFiles(file_paths), start, stop, pattern)

(***************************************************************************)
(* Inputs of filter_datafiles and get_datafiles                            *)
(***************************************************************************)
MaxFiles == 3
MaxPaths == 3

FileName(y, mo, ext) == FourChars(y) \o <<"_">> \o TwoChars(mo) \o <<".">> \o ext

InDir(dir, name) == <<dir, "/">> \o name

\* monthly files of January to March 2020 under two directories
GoodPaths ==
    {InDir(dir, FileName(2020, mo, Variant.ext)) : dir \in {"a", "b"}, mo \in 1..3}

DataFiles == {DataFile(path).file : path \in GoodPaths}

\* what get_files may list: files of the variant, a file of another
\* extension, and files of the extension whose names hold no month
ListedPaths ==
    { InDir("a", FileName(2020, 1, Variant.ext)),
      InDir("a", FileName(2020, 2, Variant.ext)),
      InDir("b", FileName(2020, 2, Variant.ext)),
      InDir("a", FileName(2020, 1, <<"t", "x", "t">>)),
      InDir("a", FileName(2020, 13, Variant.ext)),
      InDir("b", <<"n", "o", "t", "e", "s", ".", "d", "a", "t">>) }

SeqsUpTo(S, n) == UNION {[1..k -> S] : k \in 0..n}

Starts == {None, <<2020, 1, 1, 0>>, <<2020, 1, 15, 0>>, <<2020, 2, 1, 0>>}
Stops  == {None, <<2020, 1, 10, 0>>, <<2020, 2, 1, 0>>, <<2020, 2, 15, 0>>}
Patterns == {None, <<"a", "/">>, <<"b", "/">>}

(***************************************************************************)
(* State of a filter_datafiles or get_datafiles call: its arguments and    *)
(* its result [kind, files], kind "ok" or the exception raised.            *)
(***************************************************************************)
FilterInit ==
    fcall = [called |-> FALSE, op |-> "none", files |-> << >>, paths |-> << >>,
             start |-> None, stop |-> None, pattern |-> None,
             result |-> [kind |-> "none", files |-> << >>]]

\* filter_datafiles(files, time_range, pattern)
FilterDatafiles ==
    /\ ~fcall.called
    /\ \E files \in SeqsUpTo(DataFiles, MaxFiles), start \in Starts,
          stop \in Stops, pattern \in Patterns :
          fcall' = [called |-> TRUE, op |-> "filter_datafiles", files |-> files,
                    paths |-> << >>, start |-> start, stop |-> stop,
                    pattern |-> pattern,
                    result |-> filter_datafiles(files, start, stop, pattern)]
    /\ UNCHANGED <<iso, tr, member, parseVars>>

\* GroupSpace.get_datafiles(SID, instrument, lvl, logger, time_range, pattern)
GetDatafiles ==
    /\ ~fcall.called
    /\ \E paths \in SeqsUpTo(ListedPaths, MaxPaths), start \in Starts,
          stop \in Stops, pattern \in Patterns :
          fcall' = [called |-> TRUE, op |-> "get_datafiles", files |-> << >>,
                    paths |-> paths, start |-> start, stop |-> stop,
                    pattern |-> pattern,
                    result |-> get_datafiles(paths, start, stop, pattern)]
    /\ UNCHANGED <<iso, tr, member, parseVars>>

(***************************************************************************)
(* _parse_datafile and parse_datafiles.                                    *)
(* A file on disk is what its parse() does: [parse, rows], parse "ok" (it  *)
(* returns the table of rows), "ParserError" or "Error" (it raises another *)
(* exception).  A row is [time, id], time a datetime or None (NaT).        *)
(* A parsed dataset is [kind, rows], kind "table", "None" or "Error".      *)
(***************************************************************************)
\* _parse_datafile with the parser error not caught
_parse_datafile_NoCatch(datafile) ==
    IF datafile.parse = "ok" THEN [kind |-> "table", rows |-> datafile.rows]
    ELSE [kind |-> "Error", rows |-> << >>]

\* try: return datafile.parse(); except errors.ParserError: (returns None)
_parse_datafile(datafile) ==
    IF datafile.parse = "ok" THEN [kind |-> "table", rows |-> datafile.rows]
    ELSE IF datafile.parse = "ParserError" THEN [kind |-> "None", rows |-> << >>]
    ELSE [kind |-> "Error", rows |-> << >>]

\* the requested count clamped to the CPUs only
Processes_NoFileClamp(num_processes, cpu_count, nfiles) ==
    IF num_processes.max \/ num_processes.n > cpu_count
    THEN cpu_count ELSE num_processes.n

\* the clamp of the requested count: 'max' or more than the CPUs gives the
\* CPU count, and no more processes than files
Processes(num_processes, cpu_count, nfiles) ==
    IF (IF num_processes.max \/ num_processes.n > cpu_count
        THEN cpu_count ELSE num_processes.n) > nfiles
    THEN nfiles
    ELSE IF num_processes.max \/ num_processes.n > cpu_count
    THEN cpu_count ELSE num_processes.n

\* the rows of the datasets that are tables, in list order
RECURSIVE RowsOf(_)
RowsOf(ds) ==
    IF ds = << >> THEN << >>
    ELSE RowsOf(SubSeq(ds, 1, Len(ds) - 1))
         \o (IF ds[Len(ds)].kind = "table" THEN ds[Len(ds)].rows ELSE << >>)

\* pd.concat returning an empty table when every object is None
pd_concat_EmptyForNone(ds) == [kind |-> "table", rows |-> RowsOf(ds)]

\* pd.concat(datasets): None entries are dropped; ValueError when nothing
\* but None was passed
pd_concat(ds) ==
    IF \A i \in 1..Len(ds) : ds[i].kind = "None"
    THEN [kind |-> "ValueError", rows |-> << >>]
    ELSE [kind |-> "table", rows |-> RowsOf(ds)]

\* data.dropna(subset='Time_UTC')
dropna(rows) == SelectSeq(rows, LAMBDA r : r.time # None)

\* x put into the sorted rows after every row not later than it
RECURSIVE InsertByTime(_, _)
InsertByTime(x, sorted) ==
    IF sorted = << >> THEN <<x>>
    ELSE IF Before(x.time, sorted[Len(sorted)].time)
    THEN InsertByTime(x, SubSeq(sorted, 1, Len(sorted) - 1)) \o <<sorted[Len(sorted)]>>
    ELSE sorted \o <<x>>

\* set_index('Time_UTC') without sort_index(): the rows stay as concatenated
sort_index_Unsorted(rows) == rows

\* set_index('Time_UTC').sort_index(): ascending; rows of equal time keep
\* their order (the sort of a table this short is an insertion sort)
RECURSIVE sort_index(_)
sort_index(rows) ==
    IF rows = << >> THEN << >>
    ELSE InsertByTime(rows[Len(rows)], sort_index(SubSeq(rows, 1, Len(rows) - 1)))

\* data.loc[start:stop] leaving out the rows at stop
loc_StopExclusive(rows, start, stop) ==
    SelectSeq(rows, LAMBDA r : /\ (start # None => NotAfter(start, r.time))
                               /\ (stop # None => Before(r.time, stop)))

\* data.loc[start:stop] on the sorted DatetimeIndex: both ends included
loc(rows, start, stop) ==
    SelectSeq(rows, LAMBDA r : /\ (start # None => NotAfter(start, r.time))
                               /\ (stop # None => NotAfter(r.time, stop)))

\* the table concatenated, sorted and clipped, unless concat raised
Reduce(data, start, stop) ==
    IF data.kind # "table" THEN data
    ELSE [kind |-> "table", rows |-> loc(sort_index(dropna(data.rows)), start, stop)]

\* the driver switch after parsing
Concatenate(ds, start, stop, driver) ==
    IF driver = "pandas" THEN Reduce(pd_concat(ds), start, stop)
    ELSE IF driver = "xarray" THEN [kind |-> "NotImplementedError", rows |-> << >>]
    ELSE [kind |-> "ValueError", rows |-> << >>]

\* pool.map storing a result where it arrives, in completion order
StoreResult_InArrivalOrder(ds, i, r) ==
    [ds EXCEPT ![CHOOSE k \in 1..Len(ds) :
                    ds[k].kind = "empty" /\ \A j \in 1..(k - 1) : ds[j].kind # "empty"] = r]

\* pool.map: the result of task i goes to place i of the list
StoreResult(ds, i, r) == [ds EXCEPT ![i] = r]

(***************************************************************************)
(* Inputs of parse_datafiles                                               *)
(***************************************************************************)
MaxParseFiles == 3
MaxProcs == 3

CpuCounts == {1, MaxProcs}

T1 == <<2020, 1, 1, 0>>
T2 == <<2020, 1, 1, 1>>
T3 == <<2020, 1, 2, 0>>

Row(t, id) == [time |-> t, id |-> id]

\* what a file's parse() may do
FileContents ==
    { [parse |-> "ok", rows |-> <<Row(T2, 1), Row(None, 2), Row(T1, 3)>>],
      [parse |-> "ok", rows |-> <<Row(T3, 4), Row(T2, 5), Row(T2, 6)>>],
      [parse |-> "ParserError", rows |-> << >>],
      [parse |-> "Error", rows |-> << >>] }

ParseRanges ==
    { [start |-> None, stop |-> None],
      [start |-> T1, stop |-> T2],
      [start |-> T2, stop |-> None] }

Drivers == {"pandas", "xarray"}

Requests == {[max |-> TRUE, n |-> 0]} \cup {[max |-> FALSE, n |-> n] : n \in 1..MaxProcs}

(***************************************************************************)
(* State of parse_datafiles.                                               *)
(*   env      the files on disk, the time range, the driver, the CPUs      *)
(*   pcall    the call in progress: where it is (pc), its num_processes,   *)
(*            the clamped count                                            *)
(*   tasks    per file: "pending", "running" or "done", and who parsed it  *)
(*   datasets the list of parsed datasets being built                      *)
(*   pool     the multiprocessing.Pool of the call, and whether a worker   *)
(*            finished a file after the parse of a later file had finished *)
(*   outcome  what the last sequential (num_processes=1) and the last      *)
(*            pooled request returned or raised                            *)
(***************************************************************************)
NoOutcome == [kind |-> "none", rows |-> << >>]

EmptySlot == [kind |-> "empty", rows |-> << >>]

IdleCall == [pc |-> "idle", num_processes |-> [max |-> FALSE, n |-> 1], processes |-> 0]

NoPool == [state |-> "none", processes |-> 0, reordered |-> FALSE]

ParseIdle ==
    /\ env = [files |-> << >>, start |-> None, stop |-> None, driver |-> "pandas",
              cpu_count |-> 1]
    /\ pcall = IdleCall
    /\ tasks = << >>
    /\ datasets = << >>
    /\ pool = NoPool
    /\ outcome = [sequential |-> NoOutcome, pooled |-> NoOutcome]

ParseInit ==
    /\ \E files \in SeqsUpTo(FileContents, MaxParseFiles), range \in ParseRanges,
          driver \in Drivers, cpu_count \in CpuCounts :
          env = [files |-> files, start |-> range.start, stop |-> range.stop,
                 driver |-> driver, cpu_count |-> cpu_count]
    /\ pcall = IdleCall
    /\ tasks = << >>
    /\ datasets = << >>
    /\ pool = NoPool
    /\ outcome = [sequential |-> NoOutcome, pooled |-> NoOutcome]

timeVars == <<iso, tr, member, fcall>>

Mode(num_processes) ==
    IF ~num_processes.max /\ num_processes.n = 1 THEN "sequential" ELSE "pooled"

\* the parse of a file after file i has already finished
Overtaken(ts, i) == \E j \in (i + 1)..Len(ts) : ts[j].status = "done"

\* the call returns or raises result
Finish(result) ==
    /\ pcall' = [pcall EXCEPT !.pc = "idle"]
    /\ outcome' = [outcome EXCEPT ![Mode(pcall.num_processes)] = result]

\* parse_datafiles(files, time_range, num_processes, driver) is called:
\* the count is clamped and the sequential or the pooled branch is taken
Call ==
    /\ pcall.pc = "idle"
    /\ \E num_processes \in Requests :
          LET processes == Processes(num_processes, env.cpu_count, Len(env.files))
          IN  pcall' = [pc |-> IF processes = 1 THEN "sequential" ELSE "pool",
                        num_processes |-> num_processes, processes |-> processes]
    /\ tasks' = [i \in 1..Len(env.files) |-> [status |-> "pending", by |-> "none"]]
    /\ datasets' = [i \in 1..Len(env.files) |-> EmptySlot]
    /\ pool' = NoPool
    /\ UNCHANGED <<env, outcome, timeVars>>

\* one step of [_parse_datafile(f) for f in files] in the caller's process;
\* an exception of parse() other than ParserError leaves parse_datafiles
ParseSequential ==
    /\ pcall.pc = "sequential"
    /\ \E i \in 1..Len(tasks) :
          /\ tasks[i].status = "pending"
          /\ \A j \in 1..(i - 1) : tasks[j].status = "done"
          /\ tasks' = [tasks EXCEPT ![i] = [status |-> "done", by |-> "caller"]]
          /\ datasets' = [datasets EXCEPT ![i] = _parse_datafile(env.files[i])]
          /\ IF _parse_datafile(env.files[i]).kind = "Error"
             THEN Finish([kind |-> "Error", rows |-> << >>])
             ELSE /\ pcall' = [pcall EXCEPT !.pc =
                                  IF i = Len(tasks) THEN "concat" ELSE "sequential"]
                  /\ UNCHANGED outcome
    /\ UNCHANGED <<env, pool, timeVars>>

\* pool = multiprocessing.Pool(processes=processes): ValueError when
\* processes < 1; pool.map then hands the files out as tasks
CreatePool ==
    /\ pcall.pc = "pool"
    /\ IF pcall.processes < 1
       THEN /\ Finish([kind |-> "ValueError", rows |-> << >>])
            /\ UNCHANGED pool
       ELSE /\ pool' = [state |-> "open", processes |-> pcall.processes, reordered |-> FALSE]
            /\ pcall' = [pcall EXCEPT !.pc = "map"]
            /\ UNCHANGED outcome
    /\ UNCHANGED <<env, tasks, datasets, timeVars>>

\* an idle worker takes the next task of the queue
WorkerTake ==
    /\ pcall.pc = "map"
    /\ Cardinality({j \in 1..Len(tasks) : tasks[j].status = "running"}) < pool.processes
    /\ \E i \in 1..Len(tasks) :
          /\ tasks[i].status = "pending"
          /\ \A j \in 1..(i - 1) : tasks[j].status # "pending"
          /\ tasks' = [tasks EXCEPT ![i] = [status |-> "running", by |-> "worker"]]
    /\ UNCHANGED <<env, pcall, datasets, pool, outcome, timeVars>>

\* a worker finishes _parse_datafile on its task and sends the result back
WorkerDone ==
    /\ pcall.pc = "map"
    /\ \E i \in 1..Len(tasks) :
          /\ tasks[i].status = "running"
          /\ tasks' = [tasks EXCEPT ![i].status = "done"]
          /\ pool' = [pool EXCEPT !.reordered = @ \/ Overtaken(tasks, i)]
          /\ datasets' = StoreResult(datasets, i, _parse_datafile(env.files[i]))
    /\ UNCHANGED <<env, pcall, outcome, timeVars>>

\* pool.map returns the list once every task is done, or raises the
\* exception of a task: then close() and join() are not reached
MapReturns ==
    /\ pcall.pc = "map"
    /\ \A i \in 1..Len(tasks) : tasks[i].status = "done"
    /\ IF \E i \in 1..Len(datasets) : datasets[i].kind = "Error"
       THEN Finish([kind |-> "Error", rows |-> << >>])
       ELSE /\ pcall' = [pcall EXCEPT !.pc = "close"]
            /\ UNCHANGED outcome
    /\ UNCHANGED <<env, tasks, datasets, pool, timeVars>>

\* pool.close()
ClosePool ==
    /\ pcall.pc = "close"
    /\ pool' = [pool EXCEPT !.state = "closed"]
    /\ pcall' = [pcall EXCEPT !.pc = "join"]
    /\ UNCHANGED <<env, tasks, datasets, outcome, timeVars>>

\* pool.join()
JoinPool ==
    /\ pcall.pc = "join"
    /\ pool' = [pool EXCEPT !.state = "joined"]
    /\ pcall' = [pcall EXCEPT !.pc = "concat"]
    /\ UNCHANGED <<env, tasks, datasets, outcome, timeVars>>

\* the datasets are concatenated and reduced to the time range, and
\* parse_datafiles returns the table or raises
ConcatAndReturn ==
    /\ pcall.pc = "concat"
    /\ Finish(Concatenate(datasets, env.start, env.stop, env.driver))
    /\ UNCHANGED <<env, tasks, datasets, pool, timeVars>>

InitIso == IsoInit /\ RangeInit /\ FilterInit /\ ParseIdle

NextIso == ParseIso

SpecIso == InitIso /\ [][NextIso]_vars

InitRange == IsoIdle /\ RangeInit /\ FilterInit /\ ParseIdle

NextRange == NewTimeRange \/ Contains

SpecRange == InitRange /\ [][NextRange]_vars

InitFilter == IsoIdle /\ RangeInit /\ FilterInit /\ ParseIdle

NextFilter == FilterDatafiles \/ GetDatafiles

SpecFilter == InitFilter /\ [][NextFilter]_vars

InitParse == IsoIdle /\ RangeInit /\ FilterInit /\ ParseInit

NextParse ==
    \/ Call
    \/ ParseSequential
    \/ CreatePool
    \/ WorkerTake
    \/ WorkerDone
    \/ MapReturns
    \/ ClosePool
    \/ JoinPool
    \/ ConcatAndReturn

SpecParse == InitParse /\ [][NextParse]_vars

(***************************************************************************)
(* The calendar, stated without ordinals, for the properties of parse_iso  *)
(***************************************************************************)
CalLeap(y) == (y % 400 = 0) \/ (y % 4 = 0 /\ y % 100 # 0)

CalDaysIn(y, m) ==
    IF m \in {4, 6, 9, 11} THEN 30
    ELSE IF m # 2 THEN 31
    ELSE IF CalLeap(y) THEN 29 ELSE 28

FirstOfNextMonth(y, m) == IF m = 12 THEN <<y + 1, 1, 1, 0>> ELSE <<y, m + 1, 1, 0>>

FollowingDay(y, m, d) ==
    IF d < CalDaysIn(y, m) THEN <<y, m, d + 1, 0>> ELSE FirstOfNextMonth(y, m)

\* the start of the unit after the one the fields f name
NextUnitStart(f) ==
    IF Len(f) = 1 THEN <<f[1] + 1, 1, 1, 0>>
    ELSE IF Len(f) = 2 THEN FirstOfNextMonth(f[1], f[2])
    ELSE IF Len(f) = 3 THEN FollowingDay(f[1], f[2], f[3])
    ELSE IF f[4] < 23 THEN <<f[1], f[2], f[3], f[4] + 1>>
    ELSE FollowingDay(f[1], f[2], f[3])

\* the instant the fields f write, month and day defaulting to 1, hour to 0
InstantWritten(f) ==
    <<f[1],
      IF Len(f) >= 2 THEN f[2] ELSE 1,
      IF Len(f) >= 3 THEN f[3] ELSE 1,
      IF Len(f) >= 4 THEN f[4] ELSE 0>>

\* the fields name a day of the calendar
IsCalendarDate(f) == Len(f) < 3 \/ f[3] <= CalDaysIn(f[1], f[2])

\* C1: for a string written from the fields of a calendar date in an accepted
\* form (YYYY, YYYY-MM, YYYY-MM-DD, YYYY-MM-DDTHH), parse_iso with
\* inclusive=True returns the start of the next unit at the finest granularity
\* written (December wrapping to January of the next year, the last day of a
\* month to the first of the next, hour 23 to the next day), and with
\* inclusive=False the instant written, month/day/hour defaulting to 1/1/0.
C1_ParseIsoNextUnit ==
    (iso.called /\ iso.fields # None /\ IsCalendarDate(iso.fields))
        => iso.result = Ok(IF iso.inclusive THEN NextUnitStart(iso.fields)
                           ELSE InstantWritten(iso.fields))

\* "2020-12" parsed inclusively gave 2021-01-01T00
C1_Witness ==
    /\ iso.called /\ iso.inclusive
    /\ iso.string = <<"2", "0", "2", "0", "-", "1", "2">>
    /\ iso.result = Ok(<<2021, 1, 1, 0>>)

\* the shapes of the accepted forms: "d" a digit, separators optional, minute
\* digits optional after the hour
AcceptedShapes ==
    LET D2 == <<"d", "d">>
    IN  { D2 \o D2
          \o (IF n >= 2 THEN sep1 \o D2 ELSE << >>)
          \o (IF n >= 3 THEN sep2 \o D2 ELSE << >>)
          \o (IF n >= 4 THEN ts \o D2 \o mins ELSE << >>) :
          n \in 1..4, sep1 \in {<< >>, <<"-">>}, sep2 \in {<< >>, <<"-">>},
          ts \in {<< >>, <<"T">>, <<" ">>},
          mins \in {<< >>, <<":", "d", "d">>, <<"d", "d">>} }

Shape(s) == [i \in 1..Len(s) |-> IF IsDigit(s[i]) THEN "d" ELSE s[i]]

IsAcceptedForm(s) == Shape(s) \in AcceptedShapes

\* C9: parse_iso fails with ValueError for every string that is not of an
\* accepted partial ISO8601 form, a string of four digits followed by other
\* text included.
C9_RejectsOtherStrings ==
    (iso.called /\ ~IsAcceptedForm(iso.string)) => iso.result.kind = "ValueError"

\* hours since the start of year 1, for comparing instants as numbers
HourNumber(t) == ToOrdinal(t[1], t[2], t[3]) * 24 + t[4]

\* C10: x in TimeRange is true for every x when both bounds are unset,
\* x <= stop when only stop is set, x >= start when only start is set, and
\* start <= x <= stop when both are set; TimeRange(start="2020") contains
\* 2021-01-01 and does not contain 2019-12-31.
C10_Membership ==
    member.called =>
        /\ member.result =
              ( /\ (tr.start # None => HourNumber(tr.start) <= HourNumber(member.item))
                /\ (tr.stop # None => HourNumber(member.item) <= HourNumber(tr.stop)) )
        /\ (tr.args = [time_range |-> NoRange, start |-> StrArg(S2020),
                       stop |-> NoneArg])
              => /\ (member.item = <<2021, 1, 1, 0>> => member.result)
                 /\ (member.item = <<2019, 12, 31, 0>> => ~member.result)

\* a range with both bounds set was asked for its own stop, and contains it
C10_Witness ==
    /\ member.called
    /\ tr.start # None /\ tr.stop # None
    /\ member.item = tr.stop
    /\ member.result

\* C2: filter_datafiles never returns a file whose period starts exactly at
\* time_range.stop: every returned file's period starts strictly before stop,
\* whatever the input list (files of equal period included) and the pattern.
C2_NoFileStartsAtStop ==
    (fcall.called /\ fcall.op = "filter_datafiles" /\ fcall.result.kind = "ok"
     /\ fcall.stop # None)
        => \A i \in 1..Len(fcall.result.files) :
              HourNumber(start_time(fcall.result.files[i].period))
                  < HourNumber(fcall.stop)

\* the month period intersects the range [start, stop), an unset bound being
\* unbounded: some instant lies in both
Intersects(period, start, stop) ==
    LET ps == HourNumber(start_time(period))
        pe == HourNumber(FirstOfNextMonth(period[1], period[2]))
        lo == IF start # None /\ HourNumber(start) > ps THEN HourNumber(start) ELSE ps
        hi == IF stop # None /\ HourNumber(stop) < pe THEN HourNumber(stop) ELSE pe
    IN  lo < hi

Count(f, files) == Cardinality({i \in 1..Len(files) : files[i] = f})

\* C3: when it returns, filter_datafiles(files, time_range) returns exactly
\* the input files whose period intersects [start, stop), ascending by period
\* start: none omitted, none added.
C3_ExactlyIntersecting ==
    (fcall.called /\ fcall.op = "filter_datafiles" /\ fcall.pattern = None
     /\ fcall.result.kind = "ok")
        => /\ \A i \in 1..(Len(fcall.result.files) - 1) :
                 HourNumber(start_time(fcall.result.files[i].period))
                     <= HourNumber(start_time(fcall.result.files[i + 1].period))
           /\ \A f \in DataFiles :
                 Count(f, fcall.result.files) =
                     IF Intersects(f.period, fcall.start, fcall.stop)
                     THEN Count(f, fcall.files) ELSE 0

RECURSIVE Constructible(_)
Constructible(paths) ==
    IF paths = << >> THEN << >>
    ELSE Constructible(SubSeq(paths, 1, Len(paths) - 1))
         \o (IF endswith(paths[Len(paths)], Variant.ext)
                /\ DataFile(paths[Len(paths)]).kind = "ok"
             THEN <<DataFile(paths[Len(paths)]).file>> ELSE << >>)

\* C8: get_datafiles skips a path whose file name cannot form a period and
\* passes the DataFiles of the remaining paths to filter_datafiles.
C8_SkipsBadFileName ==
    (fcall.called /\ fcall.op = "get_datafiles")
        => fcall.result = filter_datafiles(Constructible(fcall.paths), fcall.start,
                                           fcall.stop, fcall.pattern)

(***************************************************************************)
(* Properties of parse_datafiles                                           *)
(***************************************************************************)
Modes == {"sequential", "pooled"}

Returned(mode) == outcome[mode].kind # "none"

AllRows == UNION {{c.rows[i] : i \in 1..Len(c.rows)} : c \in FileContents}

CountIn(r, rows) == Cardinality({i \in 1..Len(rows) : rows[i] = r})

\* row r has a timestamp inside [start, stop], an unset bound unbounded
Kept(r) ==
    /\ r.time # None
    /\ (env.start # None => HourNumber(env.start) <= HourNumber(r.time))
    /\ (env.stop # None => HourNumber(r.time) <= HourNumber(env.stop))

\* how often row r occurs in the first n files that parse
RECURSIVE CountParsed(_, _)
CountParsed(r, n) ==
    IF n = 0 THEN 0
    ELSE CountParsed(r, n - 1)
         + (IF env.files[n].parse = "ok" THEN CountIn(r, env.files[n].rows) ELSE 0)

\* at least one file parses and every other raises the parser error
PartialFailure ==
    /\ \E i \in 1..Len(env.files) : env.files[i].parse = "ok"
    /\ \A i \in 1..Len(env.files) : env.files[i].parse \in {"ok", "ParserError"}

\* C5: when at least one file parses and every other file's parse() fails
\* with the parser error, parse_datafiles (tabular driver) does not raise and
\* returns a table holding only rows of the files that parsed (each kept row
\* as often as those files hold it), on the sequential and on the pooled path.
C5_PartialFailureTolerated ==
    \A mode \in Modes :
        (Returned(mode) /\ env.driver = "pandas" /\ PartialFailure)
            => /\ outcome[mode].kind = "table"
               /\ \A r \in AllRows :
                     CountIn(r, outcome[mode].rows) =
                         IF Kept(r) THEN CountParsed(r, Len(env.files)) ELSE 0

\* a pool of workers parsed files of which one raised the parser error, and
\* the call returned a table with rows
C5_Witness ==
    /\ pcall.pc = "idle" /\ pool.state = "joined" /\ pool.processes > 1
    /\ PartialFailure
    /\ \E i \in 1..Len(env.files) : env.files[i].parse = "ParserError"
    /\ outcome.pooled.kind = "table" /\ outcome.pooled.rows # << >>

\* C6: when no file parses, parse_datafiles raises instead of returning a
\* table.
C6_AllFailedRaises ==
    \A mode \in Modes :
        (Returned(mode) /\ \A i \in 1..Len(env.files) : env.files[i].parse # "ok")
            => outcome[mode].kind # "table"

\* two or more files all raised the parser error and concatenation raised
C6_Witness ==
    /\ Len(env.files) >= 2
    /\ \A i \in 1..Len(env.files) : env.files[i].parse = "ParserError"
    /\ env.driver = "pandas"
    /\ outcome.pooled.kind = "ValueError"
    /\ pool.state = "joined"

\* C7: for the same files and time range, the sequential run and the pooled
\* run both raise, or both return tables with the same rows in the same order,
\* whatever the order in which the workers finish.
C7_SequentialEqualsPooled ==
    (Returned("sequential") /\ Returned("pooled"))
        => /\ (outcome.sequential.kind = "table") <=> (outcome.pooled.kind = "table")
           /\ outcome.sequential.kind = "table"
                 => outcome.sequential.rows = outcome.pooled.rows

\* both runs returned a table of rows from several files, the pooled one from
\* a pool of several workers
C7_Witness ==
    /\ pcall.pc = "idle" /\ pool.state = "joined" /\ pool.processes > 1
    /\ outcome.sequential.kind = "table" /\ outcome.pooled.kind = "table"
    /\ Len(outcome.pooled.rows) > 2
    /\ Cardinality({i \in 1..Len(env.files) : env.files[i].parse = "ok"}) > 1

\* C11: when the driver is 'xarray', parse_datafiles fails before doing any
\* work: no file's parse() is ever invoked, by the caller or by a worker, and
\* no pool is ever created.
C11_XarrayFailsFast ==
    env.driver = "xarray"
        => /\ \A i \in 1..Len(tasks) : tasks[i].by = "none"
           /\ pool.state = "none"

\* C12: a table returned by parse_datafiles holds exactly the rows of the
\* files that parsed whose timestamp is set and lies in the closed interval
\* [start, stop] (an unset bound unbounded), each as often as those files hold
\* it: rows without a timestamp and rows outside the interval are absent, and
\* rows of equal timestamp, within a file or across files, are all present.
C12_ExactRowsInRange ==
    \A mode \in Modes :
        outcome[mode].kind = "table"
            => /\ \A i \in 1..Len(outcome[mode].rows) : outcome[mode].rows[i] \in AllRows
               /\ \A r \in AllRows :
                     CountIn(r, outcome[mode].rows) =
                         IF Kept(r) THEN CountParsed(r, Len(env.files)) ELSE 0

\* a table returned for [T1, T2] from both kinds of file: the three rows of
\* timestamp T2 (two of one file, one of the other) are all there, the row at
\* T3 and the row without a timestamp are not
C12_Witness ==
    /\ pcall.pc = "idle" /\ outcome.pooled.kind = "table"
    /\ env.start = T1 /\ env.stop = T2
    /\ CountIn(Row(T2, 1), outcome.pooled.rows) = 1
    /\ CountIn(Row(T2, 5), outcome.pooled.rows) = 1
    /\ CountIn(Row(T2, 6), outcome.pooled.rows) = 1
    /\ CountParsed(Row(T3, 4), Len(env.files)) = 1
    /\ CountParsed(Row(None, 2), Len(env.files)) = 1
    /\ CountIn(Row(T3, 4), outcome.pooled.rows) = 0
    /\ CountIn(Row(None, 2), outcome.pooled.rows) = 0

\* C13: the rows of a table returned by parse_datafiles are in non-decreasing
\* timestamp order, for every order of the input files and every order in
\* which the workers finish.
C13_SortedByTimestamp ==
    \A mode \in Modes :
        outcome[mode].kind = "table"
            => \A i, j \in 1..Len(outcome[mode].rows) :
                  i < j => HourNumber(outcome[mode].rows[i].time)
                              <= HourNumber(outcome[mode].rows[j].time)

\* a pool of several workers returned a table of several rows; a worker
\* finished a file after the parse of a later file had finished, and the rows
\* as concatenated were not in timestamp order
C13_Witness ==
    /\ pcall.pc = "idle" /\ pool.state = "joined" /\ pool.processes > 1
    /\ pool.reordered
    /\ outcome.pooled.kind = "table" /\ Len(outcome.pooled.rows) > 2
    /\ \E i, j \in 1..Len(RowsOf(datasets)) :
          /\ i < j
          /\ RowsOf(datasets)[i].time # None /\ RowsOf(datasets)[j].time # None
          /\ HourNumber(RowsOf(datasets)[j].time) < HourNumber(RowsOf(datasets)[i].time)

\* C14: whenever parse_datafiles has returned or raised, the pool it created,
\* if any, has been closed and joined: on normal completion, after per-file
\* parser errors, after an exception of a worker's parse() that is not the
\* parser error, and after a failure of the merge step.
C14_PoolClosedAndJoined ==
    pcall.pc = "idle" => pool.state \in {"none", "joined"}

\* the count asked for, 'max' counting as the CPU count
RequestedCount == IF pcall.num_processes.max THEN env.cpu_count ELSE pcall.num_processes.n

\* C15: a pool of parse_datafiles has at most min(requested count, CPU
\* count, number of files) workers, 'max' counting as the CPU count, and no
\* more of its workers are parsing than it has; when the clamped count is 1
\* there is no pool and every file parsed was parsed by the caller.
C15_WorkersClamped ==
    /\ pool.state # "none"
          => /\ pool.processes <= RequestedCount
             /\ pool.processes <= env.cpu_count
             /\ pool.processes <= Len(env.files)
             /\ Cardinality({i \in 1..Len(tasks) : tasks[i].status = "running"})
                   <= pool.processes
    /\ pcall.processes = 1
          => /\ pool.state = "none"
             /\ \A i \in 1..Len(tasks) : tasks[i].by # "worker"
    /\ pcall.processes # 1
          => \A i \in 1..Len(tasks) : tasks[i].by # "caller"

\* three processes were asked for on three CPUs for two files: the pool had
\* two workers, which parsed both files
C15_Witness ==
    /\ pcall.pc = "idle" /\ pool.state = "joined"
    /\ ~pcall.num_processes.max /\ pcall.num_processes.n = 3 /\ env.cpu_count = 3
    /\ Len(env.files) = 2 /\ pool.processes = 2
    /\ \A i \in 1..Len(tasks) : tasks[i].by = "worker"

====
